---- MODULE Spec2Model ----
(***************************************************************************)
(* Model of the two stateful view components of the waveforms front-end:   *)
(*   IntroRoute      (src/src/components/IntroRoute/IntroRoute.js)         *)
(*   AvailableWidth  (src/src/components/AvailableWidth/AvailableWidth.js) *)
(* Time is counted in milliseconds.                                        *)
(***************************************************************************)
EXTENDS Integers, Sequences, FiniteSets, TLC

\* ------------------------------------------------------------------------
\* Bounds of the model
\* ------------------------------------------------------------------------
\* number of narrative steps (= number of sections)
NumSteps == 2
\* largest element width (px) the environment produces
MaxWidth == 6
\* the count of handleScroll runs saturates here
MaxRuns == 2
\* possible values of getBoundingClientRect().bottom of a section
Bottoms == {-1, 0, 1}
\* possible values of window.innerHeight
Heights == {600, 800}
\* amounts of time (ms) that may pass in one step of the clock
Delays == {250, 500}
\* values the waveform controls pass to handleUpdateAmplitude / Frequency
Levels == {1, 2}

\* ------------------------------------------------------------------------
\* JavaScript values: a value carries its type, so that === compares types
\* ------------------------------------------------------------------------
Undefined == [type |-> "undefined", num |-> 0, str |-> ""]
Num(n) == [type |-> "number", num |-> n, str |-> ""]
Str(s) == [type |-> "string", num |-> 0, str |-> s]

\* a === b
StrictEquals(a, b) == a.type = b.type /\ a.num = b.num /\ a.str = b.str

\* arr[i] for a JavaScript array held as a TLA+ sequence (0-based index);
\* an index outside the array reads undefined
ArrayGet(arr, i) == IF i >= 0 /\ i < Len(arr) THEN arr[i + 1] ELSE Undefined

\* arr.indexOf(v): first 0-based position of v, or -1
IndexOf(arr, v) ==
  IF \E k \in 1..Len(arr) : StrictEquals(arr[k], v)
  THEN (CHOOSE k \in 1..Len(arr) :
          /\ StrictEquals(arr[k], v)
          /\ \A j \in 1..(k - 1) : ~StrictEquals(arr[j], v)) - 1
  ELSE -1

\* ------------------------------------------------------------------------
\* Constants of the program
\* ------------------------------------------------------------------------
\* the ordered sequence of step identifiers (constants.INTRO_STEPS)
INTRO_STEPS == [i \in 1..NumSteps |-> Str("step" \o ToString(i - 1))]

\* the sections rendered by IntroRoute, in vertical order: one per step
stepsArray == [i \in 1..NumSteps |-> [id |-> INTRO_STEPS[i]]]

\* constants.DEFAULT_WAVEFORM_SHAPE
DEFAULT_WAVEFORM_SHAPE == Str("DEFAULT_WAVEFORM_SHAPE")

\* steps[id].makeSoundToggleable of IntroRoute.steps, by position of id in
\* INTRO_STEPS: the sound toggle is offered from the second step on
makeSoundToggleable(i) == i > 1

\* (variant: a shorter wait)
ScrollWaitHalved == 500 \div 2
\* wait of the debounced handleScroll
ScrollWait == 500
\* wait of the debounced handleResize
ResizeWait == 500

\* ------------------------------------------------------------------------
\* State
\* ------------------------------------------------------------------------
VARIABLES
  irPhase,          \* "constructed", "mounted" or "unmounted"
  irState,          \* IntroRoute's this.state
  listeners,        \* window event types IntroRoute listens to
  sectionBottoms,   \* bottom of each section's bounding rect, section order
  innerHeight,      \* window.innerHeight
  scrolling,        \* FALSE once the user has stopped scrolling for good
  scrollTimer,      \* pending timeout of the debounced handleScroll
  resizeTimer,      \* pending timeout of the debounced handleResize
  msSinceScroll,    \* ms since the body of handleScroll last ran (saturated)
  msSinceResize,    \* ms since the body of handleResize last ran (saturated)
  scrollRuns,       \* times the body of handleScroll has run (saturated)
  awPhase,          \* "constructed", "rendered", "mounted" or "unmounted"
  awState,          \* AvailableWidth's this.state
  elemWidth,        \* rendered width of AvailableWidth's element
  observing,        \* TRUE while the ResizeObserver observes the element
  awPending,        \* TRUE while the ResizeObserver has a notification due
  awLastRender      \* output of AvailableWidth's most recent render

irVars == <<irPhase, irState, listeners, sectionBottoms, innerHeight,
            scrolling, scrollTimer, resizeTimer, msSinceScroll,
            msSinceResize, scrollRuns>>
awVars == <<awPhase, awState, elemWidth, observing, awPending, awLastRender>>
vars == <<irPhase, irState, listeners, sectionBottoms, innerHeight,
          scrolling, scrollTimer, resizeTimer, msSinceScroll,
          msSinceResize, scrollRuns,
          awPhase, awState, elemWidth, observing, awPending, awLastRender>>

\* ------------------------------------------------------------------------
\* debounce(callback, wait): every call restarts a timeout of `wait` ms and
\* the callback runs once when the timeout expires
\* ------------------------------------------------------------------------
NoTimer == [armed |-> FALSE, left |-> 0]
Debounced(wait) == [armed |-> TRUE, left |-> wait]
Expired(timer) == timer.armed /\ timer.left = 0
Elapse(timer, d) ==
  IF timer.armed
  THEN [timer EXCEPT !.left = IF @ > d THEN @ - d ELSE 0]
  ELSE timer

\* time since a handler body last ran, saturated at one debounce window
Later(ms, d) == IF ms + d >= 500 THEN 500 ELSE ms + d

\* layouts: sections are stacked in order, so bottoms never decrease
Layouts ==
  {b \in [1..NumSteps -> Bottoms] : \A i \in 1..(NumSteps - 1) : b[i] <= b[i + 1]}

\* ------------------------------------------------------------------------
\* IntroRoute
\* ------------------------------------------------------------------------
\* this.setState({field: value}) of IntroRoute, as the merge it requests.
\* (React reports and ignores the call when the component is unmounted, so
\* a change of irState after unmount stands for such a call.)
IRSetState(field, value) == irState' = [irState EXCEPT ![field] = value]

InitIR ==
  /\ irPhase = "constructed"
  /\ \E h \in Heights :
       /\ innerHeight = h
       /\ irState = [currentStep |-> ArrayGet(INTRO_STEPS, 0),
                     windowHeight |-> h,
                     amplitude |-> 1,
                     frequency |-> 1,
                     shape |-> DEFAULT_WAVEFORM_SHAPE,
                     userEnabledSound |-> FALSE]
  /\ listeners = {}
  /\ sectionBottoms = [i \in 1..NumSteps |-> 1]
  /\ scrolling = TRUE
  /\ scrollTimer = NoTimer
  /\ resizeTimer = NoTimer
  /\ msSinceScroll = 500
  /\ msSinceResize = 500
  /\ scrollRuns = 0

\* (variant: registers the scroll listener only)
IR_componentDidMount_scrollOnly ==
  /\ irPhase = "constructed"
  /\ irPhase' = "mounted"
  /\ listeners' = listeners \cup {"scroll"}
  /\ UNCHANGED <<irState, sectionBottoms, innerHeight, scrolling, scrollTimer,
                 resizeTimer, msSinceScroll, msSinceResize, scrollRuns>>
  /\ UNCHANGED awVars

IR_componentDidMount ==
  /\ irPhase = "constructed"
  /\ irPhase' = "mounted"
  /\ listeners' = listeners \cup {"resize", "scroll"}
  /\ UNCHANGED <<irState, sectionBottoms, innerHeight, scrolling, scrollTimer,
                 resizeTimer, msSinceScroll, msSinceResize, scrollRuns>>
  /\ UNCHANGED awVars

IR_componentWillUnmount ==
  /\ irPhase = "mounted"
  /\ irPhase' = "unmounted"
  /\ listeners' = listeners \ {"resize", "scroll"}
  /\ UNCHANGED <<irState, sectionBottoms, innerHeight, scrolling, scrollTimer,
                 resizeTimer, msSinceScroll, msSinceResize, scrollRuns>>
  /\ UNCHANGED awVars

\* handleUpdateAmplitude(val), called by the waveform's amplitude control
HandleUpdateAmplitude ==
  /\ irPhase = "mounted"
  /\ \E val \in Levels : IRSetState("amplitude", val)
  /\ UNCHANGED <<irPhase, listeners, sectionBottoms, innerHeight, scrolling,
                 scrollTimer, resizeTimer, msSinceScroll, msSinceResize,
                 scrollRuns>>
  /\ UNCHANGED awVars

\* (variant: stores the value in the amplitude field)
HandleUpdateFrequency_amplitude ==
  /\ irPhase = "mounted"
  /\ \E val \in Levels : IRSetState("amplitude", val)
  /\ UNCHANGED <<irPhase, listeners, sectionBottoms, innerHeight, scrolling,
                 scrollTimer, resizeTimer, msSinceScroll, msSinceResize,
                 scrollRuns>>
  /\ UNCHANGED awVars

\* handleUpdateFrequency(val), called by the waveform's frequency control
HandleUpdateFrequency ==
  /\ irPhase = "mounted"
  /\ \E val \in Levels : IRSetState("frequency", val)
  /\ UNCHANGED <<irPhase, listeners, sectionBottoms, innerHeight, scrolling,
                 scrollTimer, resizeTimer, msSinceScroll, msSinceResize,
                 scrollRuns>>
  /\ UNCHANGED awVars

\* handleToggleAudibility(val), called by the sound button
HandleToggleAudibility ==
  /\ irPhase = "mounted"
  /\ \E val \in BOOLEAN : IRSetState("userEnabledSound", val)
  /\ UNCHANGED <<irPhase, listeners, sectionBottoms, innerHeight, scrolling,
                 scrollTimer, resizeTimer, msSinceScroll, msSinceResize,
                 scrollRuns>>
  /\ UNCHANGED awVars

\* the window fires a scroll event: the sections have moved, and the
\* debounced handleScroll is called if it is registered
ScrollEvent ==
  /\ irPhase # "constructed"
  /\ scrolling
  /\ \E b \in Layouts : sectionBottoms' = b
  /\ scrollTimer' = IF "scroll" \in listeners THEN Debounced(ScrollWait)
                    ELSE scrollTimer
  /\ UNCHANGED <<irPhase, irState, listeners, innerHeight, scrolling,
                 resizeTimer, msSinceScroll, msSinceResize, scrollRuns>>
  /\ UNCHANGED awVars

\* the scroll event just received was the last one: the user stops scrolling
StopScrolling ==
  /\ irPhase = "mounted"
  /\ scrolling
  /\ scrollTimer.armed
  /\ scrolling' = FALSE
  /\ UNCHANGED <<irPhase, irState, listeners, sectionBottoms, innerHeight,
                 scrollTimer, resizeTimer, msSinceScroll, msSinceResize,
                 scrollRuns>>
  /\ UNCHANGED awVars

\* the window fires a resize event
ResizeEvent ==
  /\ irPhase # "constructed"
  /\ \E h \in Heights : innerHeight' = h
  /\ resizeTimer' = IF "resize" \in listeners THEN Debounced(ResizeWait)
                    ELSE resizeTimer
  /\ UNCHANGED <<irPhase, irState, listeners, sectionBottoms, scrolling,
                 scrollTimer, msSinceScroll, msSinceResize, scrollRuns>>
  /\ UNCHANGED awVars

\* time passes
Tick ==
  /\ irPhase # "constructed"
  /\ \E d \in Delays :
       /\ scrollTimer' = Elapse(scrollTimer, d)
       /\ resizeTimer' = Elapse(resizeTimer, d)
       /\ msSinceScroll' = Later(msSinceScroll, d)
       /\ msSinceResize' = Later(msSinceResize, d)
  /\ UNCHANGED <<irPhase, irState, listeners, sectionBottoms, innerHeight,
                 scrolling, scrollRuns>>
  /\ UNCHANGED awVars

\* (variant: finds the first section with bottom > 0)
FindActiveSectionIndex_strict(bottoms) ==
  IF \E k \in 1..Len(bottoms) : bottoms[k] > 0
  THEN (CHOOSE k \in 1..Len(bottoms) :
          /\ bottoms[k] > 0
          /\ \A j \in 1..(k - 1) : ~(bottoms[j] > 0)) - 1
  ELSE -1

\* (variant: finds the last section with bottom >= 0)
FindActiveSectionIndex_last(bottoms) ==
  IF \E k \in 1..Len(bottoms) : bottoms[k] >= 0
  THEN (CHOOSE k \in 1..Len(bottoms) :
          /\ bottoms[k] >= 0
          /\ \A j \in (k + 1)..Len(bottoms) : ~(bottoms[j] >= 0)) - 1
  ELSE -1

\* sectionRefs.findIndex(section => section.getBoundingClientRect().bottom >= 0)
FindActiveSectionIndex(bottoms) ==
  IF \E k \in 1..Len(bottoms) : bottoms[k] >= 0
  THEN (CHOOSE k \in 1..Len(bottoms) :
          /\ bottoms[k] >= 0
          /\ \A j \in 1..(k - 1) : ~(bottoms[j] >= 0)) - 1
  ELSE -1

\* (variant: moves one step on from the current step when the active section
\* is not the current one)
handleScrollBody_stepwise(state, bottoms) ==
  LET activeSectionIndex == FindActiveSectionIndex(bottoms)
      currentStepIndex == IndexOf(INTRO_STEPS, state.currentStep)
  IN IF activeSectionIndex # currentStepIndex
     THEN [state EXCEPT !.currentStep = ArrayGet(INTRO_STEPS, currentStepIndex + 1)]
     ELSE state

\* the state that the body of handleScroll leaves, given this.state and the
\* bottoms of the sections
handleScrollBody(state, bottoms) ==
  LET activeSectionIndex == FindActiveSectionIndex(bottoms)
  IN IF ~StrictEquals(Num(activeSectionIndex), state.currentStep)
     THEN [state EXCEPT !.currentStep = ArrayGet(INTRO_STEPS, activeSectionIndex)]
     ELSE state

\* the body of handleScroll, run when its debounce timeout expires
HandleScroll ==
  /\ Expired(scrollTimer)
  /\ scrollTimer' = NoTimer
  /\ msSinceScroll' = 0
  /\ irState' = handleScrollBody(irState, sectionBottoms)
  /\ scrollRuns' = IF scrollRuns < MaxRuns THEN scrollRuns + 1 ELSE scrollRuns
  /\ UNCHANGED <<irPhase, listeners, sectionBottoms, innerHeight, scrolling,
                 resizeTimer, msSinceResize>>
  /\ UNCHANGED awVars

\* the body of handleResize, run when its debounce timeout expires
HandleResize ==
  /\ Expired(resizeTimer)
  /\ resizeTimer' = NoTimer
  /\ msSinceResize' = 0
  /\ IRSetState("windowHeight", innerHeight)
  /\ UNCHANGED <<irPhase, listeners, sectionBottoms, innerHeight, scrolling,
                 scrollTimer, msSinceScroll, scrollRuns>>
  /\ UNCHANGED awVars

\* handleIntersect(id, entry), called by a section's IntersectionObserver
HandleIntersect(id) ==
  /\ irPhase = "mounted"
  /\ LET currentStepIndex == IndexOf(INTRO_STEPS, irState.currentStep)
         intersectStepIndex == IndexOf(INTRO_STEPS, id)
         direction == IF StrictEquals(id, irState.currentStep)
                      THEN "forwards" ELSE "backwards"
         nextStep == IF direction = "forwards"
                     THEN ArrayGet(INTRO_STEPS, intersectStepIndex + 1)
                     ELSE ArrayGet(INTRO_STEPS, intersectStepIndex)
     IN IRSetState("currentStep", nextStep)
  /\ UNCHANGED <<irPhase, listeners, sectionBottoms, innerHeight, scrolling,
                 scrollTimer, resizeTimer, msSinceScroll, msSinceResize,
                 scrollRuns>>
  /\ UNCHANGED awVars

\* a section reports an intersection: onIntersect(section.id, entry)
Intersect == \E i \in 1..Len(stepsArray) : HandleIntersect(stepsArray[i].id)

\* (variant: the oscillator follows the user's flag alone)
IR_render_flagOnly(state) ==
  LET stepIndex == IndexOf(INTRO_STEPS, state.currentStep)
  IN IF stepIndex = -1
     THEN [threw |-> TRUE, isAudible |-> FALSE, toggleVisible |-> FALSE]
     ELSE [threw |-> FALSE,
           isAudible |-> state.userEnabledSound,
           toggleVisible |-> makeSoundToggleable(stepIndex + 1)]

\* render(): what it hands to Oscillator (isAudible) and to
\* SoundButtonToggle (isVisible); reading a field of steps[currentStep]
\* throws when currentStep is no key of steps
IR_render(state) ==
  LET stepIndex == IndexOf(INTRO_STEPS, state.currentStep)
  IN IF stepIndex = -1
     THEN [threw |-> TRUE, isAudible |-> FALSE, toggleVisible |-> FALSE]
     ELSE [threw |-> FALSE,
           isAudible |-> state.userEnabledSound
                           /\ makeSoundToggleable(stepIndex + 1),
           toggleVisible |-> makeSoundToggleable(stepIndex + 1)]

\* ------------------------------------------------------------------------
\* AvailableWidth
\* ------------------------------------------------------------------------
NoOutput == [div |-> FALSE, childrenCalled |-> FALSE, arg |-> Undefined]

\* (variant: tests the truthiness of width, `width && children(width)`)
AW_render_truthy(state) ==
  [div |-> TRUE,
   childrenCalled |-> state.width.type = "number" /\ state.width.num # 0,
   arg |-> IF state.width.type = "number" /\ state.width.num # 0
           THEN state.width ELSE Undefined]

\* render(): the container, and children(width) once width is defined
AW_render(state) ==
  [div |-> TRUE,
   childrenCalled |-> ~StrictEquals(state.width, Undefined),
   arg |-> IF ~StrictEquals(state.width, Undefined) THEN state.width
           ELSE Undefined]

InitAW ==
  /\ awPhase = "constructed"
  /\ awState = [width |-> Undefined]
  /\ elemWidth \in 0..MaxWidth
  /\ observing = FALSE
  /\ awPending = FALSE
  /\ awLastRender = NoOutput

\* (variant: the observer is attached while rendering)
AW_mount_observing ==
  /\ awPhase = "constructed"
  /\ awPhase' = "rendered"
  /\ awLastRender' = AW_render(awState)
  /\ observing' = TRUE
  /\ awPending' = TRUE
  /\ UNCHANGED <<awState, elemWidth>>
  /\ UNCHANGED irVars

\* first render of the mounting component
AW_mount ==
  /\ awPhase = "constructed"
  /\ awPhase' = "rendered"
  /\ awLastRender' = AW_render(awState)
  /\ UNCHANGED <<awState, elemWidth, observing, awPending>>
  /\ UNCHANGED irVars

\* (variant: attaches the observer without measuring first)
AW_componentDidMount_noMeasure ==
  /\ awPhase = "rendered"
  /\ awPhase' = "mounted"
  /\ observing' = TRUE
  /\ awPending' = TRUE
  /\ UNCHANGED <<awState, elemWidth, awLastRender>>
  /\ UNCHANGED irVars

\* componentDidMount(): measure the element, then observe it; the observer
\* reports the size of a newly observed element
AW_componentDidMount ==
  /\ awPhase = "rendered"
  /\ awPhase' = "mounted"
  /\ awState' = [awState EXCEPT !.width = Num(elemWidth)]
  /\ observing' = TRUE
  /\ awPending' = TRUE
  /\ awLastRender' = AW_render(awState')
  /\ UNCHANGED elemWidth
  /\ UNCHANGED irVars

\* the element changes size
ElemResize ==
  /\ awPhase \in {"mounted", "unmounted"}
  /\ \E w \in 0..MaxWidth : w # elemWidth /\ elemWidth' = w
  /\ awPending' = observing
  /\ UNCHANGED <<awPhase, awState, observing, awLastRender>>
  /\ UNCHANGED irVars

\* (variant: keeps the larger of the stored and the reported width)
AW_observerCallback_max ==
  /\ observing
  /\ awPending
  /\ awPending' = FALSE
  /\ awState' = [awState EXCEPT
                   !.width = IF @.type = "number" /\ @.num > elemWidth
                             THEN @ ELSE Num(elemWidth)]
  /\ awLastRender' = AW_render(awState')
  /\ UNCHANGED <<awPhase, elemWidth, observing>>
  /\ UNCHANGED irVars

\* the ResizeObserver's callback, ([entry]) => setState({width: ...})
AW_observerCallback ==
  /\ observing
  /\ awPending
  /\ awPending' = FALSE
  /\ awState' = [awState EXCEPT !.width = Num(elemWidth)]
  /\ awLastRender' = AW_render(awState')
  /\ UNCHANGED <<awPhase, elemWidth, observing>>
  /\ UNCHANGED irVars

\* (variant: leaves the observer connected)
AW_componentWillUnmount_noDisconnect ==
  /\ awPhase = "mounted"
  /\ awPhase' = "unmounted"
  /\ UNCHANGED <<awState, elemWidth, observing, awPending, awLastRender>>
  /\ UNCHANGED irVars

\* componentWillUnmount(): observer.disconnect()
AW_componentWillUnmount ==
  /\ awPhase = "mounted"
  /\ awPhase' = "unmounted"
  /\ observing' = FALSE
  /\ awPending' = FALSE
  /\ UNCHANGED <<awState, elemWidth, awLastRender>>
  /\ UNCHANGED irVars

\* ------------------------------------------------------------------------
\* Specifications
\* ------------------------------------------------------------------------
Init == InitIR /\ InitAW

NextIR ==
  \/ IR_componentDidMount
  \/ IR_componentWillUnmount
  \/ ScrollEvent
  \/ StopScrolling
  \/ ResizeEvent
  \/ Tick
  \/ HandleScroll
  \/ HandleResize
  \/ Intersect

NextAW ==
  \/ AW_mount
  \/ AW_componentDidMount
  \/ ElemResize
  \/ AW_observerCallback
  \/ AW_componentWillUnmount

Next == NextIR \/ NextAW

\* both components
Spec == Init /\ [][Next]_vars

\* IntroRoute alone, next to an AvailableWidth that is never mounted
InitIRAlone == Init /\ elemWidth = 0

SpecIR == InitIRAlone /\ [][NextIR]_vars

\* IntroRoute in a window that is never resized (no resize event, hence no
\* run of handleResize)
NextIRScroll ==
  \/ IR_componentDidMount
  \/ IR_componentWillUnmount
  \/ ScrollEvent
  \/ StopScrolling
  \/ Tick
  \/ HandleScroll
  \/ Intersect

\* the same, where time passes and an expired timeout runs its callback
LiveSpecIR ==
  /\ InitIRAlone
  /\ [][NextIRScroll]_vars
  /\ WF_vars(Tick)
  /\ WF_vars(HandleScroll)

\* IntroRoute in a window that is resized and never scrolled
NextIRResize ==
  \/ IR_componentDidMount
  \/ IR_componentWillUnmount
  \/ ResizeEvent
  \/ Tick
  \/ HandleResize
  \/ Intersect

\* the same, where time passes and an expired timeout runs its callback
LiveSpecIRResize ==
  /\ InitIRAlone
  /\ [][NextIRResize]_vars
  /\ WF_vars(Tick)
  /\ WF_vars(HandleResize)

\* IntroRoute with all its handlers, for as long as it stays mounted
NextIRHandlers ==
  \/ IR_componentDidMount
  \/ HandleUpdateAmplitude
  \/ HandleUpdateFrequency
  \/ HandleToggleAudibility
  \/ ScrollEvent
  \/ ResizeEvent
  \/ Tick
  \/ HandleScroll
  \/ HandleResize
  \/ Intersect

SpecIRHandlers == InitIRAlone /\ [][NextIRHandlers]_vars

\* a mounted IntroRoute whose waveform controls are left alone: scroll,
\* resize and intersection events, and the sound button
NextIRSound ==
  \/ IR_componentDidMount
  \/ HandleToggleAudibility
  \/ ScrollEvent
  \/ ResizeEvent
  \/ Tick
  \/ HandleScroll
  \/ HandleResize
  \/ Intersect

SpecIRSound == InitIRAlone /\ [][NextIRSound]_vars

\* AvailableWidth alone, next to an IntroRoute that is never mounted
SpecAW == Init /\ [][NextAW]_vars

TypeOK ==
  /\ irPhase \in {"constructed", "mounted", "unmounted"}
  /\ awPhase \in {"constructed", "rendered", "mounted", "unmounted"}
  /\ sectionBottoms \in Layouts
  /\ msSinceScroll \in 0..500
  /\ msSinceResize \in 0..500
  /\ scrollRuns \in 0..MaxRuns

\* the 1-based position of the first section that reaches below the top of
\* the viewport in layout b, or 0 when every section is above it
FirstBelowTop(b) ==
  IF \E i \in 1..NumSteps : b[i] >= 0
  THEN CHOOSE i \in 1..NumSteps : b[i] >= 0 /\ \A j \in 1..(i - 1) : b[j] < 0
  ELSE 0

\* ------------------------------------------------------------------------
\* Claims
\* ------------------------------------------------------------------------

\* C1: in every reachable state, state.currentStep is a member of INTRO_STEPS
\* (never undefined).
C1_CurrentStepIsAStep ==
  \E i \in 1..NumSteps : irState.currentStep = INTRO_STEPS[i]

\* C2: when the body of handleScroll runs and no section has bottom >= 0, the
\* handler is a no-op: currentStep keeps its value.
C2_NoSectionIsNoOp ==
  [][(HandleScroll /\ FirstBelowTop(sectionBottoms) = 0)
       => irState'.currentStep = irState.currentStep]_vars

\* C3: the body of a debounced handler (handleScroll, handleResize) runs at
\* most once within any 500ms window: when it runs, at least 500ms have
\* passed since its previous run.
C3_AtMostOncePerWindow ==
  [][/\ HandleScroll => msSinceScroll >= 500
     /\ HandleResize => msSinceResize >= 500]_vars

\* C3 witness: the body of handleScroll has run a second time.
C3_Witness == scrollRuns >= 2 /\ msSinceScroll = 0

\* C4: after IntroRoute is unmounted no state update of IntroRoute occurs; a
\* debounced handler whose delay had not elapsed at unmount does not run later.
C4_NoUpdateAfterUnmount ==
  [][irPhase = "unmounted" => irState' = irState]_vars

\* C5: after AvailableWidth is unmounted, no later size change of the element
\* updates state.width.
C5_NoWidthUpdateAfterUnmount ==
  [][awPhase = "unmounted" => awState'.width = awState.width]_vars

\* C5 witness: the element has another size than the one stored at unmount.
C5_Witness == awPhase = "unmounted" /\ awState.width # Num(elemWidth)

\* C6: render calls children if and only if state.width is defined, and then
\* with the current state.width (a width of 0 included); before the first
\* measurement the container is rendered empty.
C6_ChildrenIffWidthDefined ==
  awLastRender.div =>
    /\ awLastRender.childrenCalled <=> (awState.width.type # "undefined")
    /\ awLastRender.childrenCalled => awLastRender.arg = awState.width

\* C6 witness: children was called with a measured width of 0.
C6_Witness ==
  /\ awPhase = "mounted"
  /\ awState.width = Num(0)
  /\ awLastRender.childrenCalled

\* C7: when the body of handleScroll runs and some section has bottom >= 0,
\* currentStep becomes INTRO_STEPS[i] for the smallest such section index i.
C7_FirstSectionBelowTopWins ==
  [][(HandleScroll /\ FirstBelowTop(sectionBottoms) # 0)
       => irState'.currentStep = INTRO_STEPS[FirstBelowTop(sectionBottoms)]]_vars

\* C7 witness: handleScroll has just moved currentStep to a section that is
\* not the first one.
C7_Witness ==
  /\ irPhase = "mounted"
  /\ msSinceScroll = 0
  /\ FirstBelowTop(sectionBottoms) > 1
  /\ irState.currentStep = INTRO_STEPS[FirstBelowTop(sectionBottoms)]

\* C8: for every handleIntersect(id, entry) call, if id is the current step
\* then currentStep becomes the step that follows id in INTRO_STEPS, and
\* otherwise currentStep becomes id.
C8_IntersectDirection ==
  [][\A i \in 1..NumSteps :
       HandleIntersect(INTRO_STEPS[i]) =>
         IF irState.currentStep = INTRO_STEPS[i]
         THEN i < NumSteps /\ irState'.currentStep = INTRO_STEPS[i + 1]
         ELSE irState'.currentStep = INTRO_STEPS[i]]_vars

\* C9: if scroll events stop while some section still has bottom >= 0, then
\* eventually currentStep is the step of the first such section (while the
\* component stays mounted).
C9_ScrollFallbackSettles ==
  \A i \in 1..NumSteps :
    (/\ irPhase = "mounted"
     /\ ~scrolling
     /\ scrollTimer.armed
     /\ FirstBelowTop(sectionBottoms) = i)
    ~> (irState.currentStep = INTRO_STEPS[i] \/ irPhase # "mounted")

\* C9 witness: scrolling has stopped, the pending handleScroll has run since,
\* and currentStep is the step of the first section below the top, which is
\* not the first section.
C9_Witness ==
  /\ irPhase = "mounted"
  /\ ~scrolling
  /\ ~scrollTimer.armed
  /\ FirstBelowTop(sectionBottoms) > 1
  /\ irState.currentStep = INTRO_STEPS[FirstBelowTop(sectionBottoms)]

\* C10: once componentDidMount has run, state.width is a number in every
\* later state.
C10_WidthDefinedAfterMount ==
  awPhase \in {"mounted", "unmounted"} => awState.width.type = "number"

\* C10 witness: a ResizeObserver notification has been delivered after mount.
C10_Witness ==
  /\ awPhase = "mounted"
  /\ ~awPending
  /\ awState.width = Num(elemWidth)

\* C11: while AvailableWidth is mounted, after every ResizeObserver
\* notification state.width is the width that notification reports and
\* children has been called with it; once every notification is delivered,
\* state.width is the element's width (the last reported width wins).
C11_NotificationSetsWidth ==
  [][/\ AW_observerCallback =>
          /\ awState'.width = Num(elemWidth)
          /\ awLastRender'.childrenCalled
          /\ awLastRender'.arg = Num(elemWidth)
     /\ (awPhase' = "mounted" /\ ~awPending') =>
          awState'.width = Num(elemWidth')]_vars

\* C11 witness: every notification is delivered and children was called with
\* the element's width.
C11_Witness ==
  /\ awPhase = "mounted"
  /\ ~awPending
  /\ awLastRender.childrenCalled
  /\ awLastRender.arg = Num(elemWidth)
  /\ elemWidth > 0

\* C12: while IntroRoute is mounted, if resize events stop then eventually
\* state.windowHeight is window.innerHeight and stays so; windowHeight only
\* changes in a run of handleResize, to the innerHeight read in it.
C12_WindowHeightSettles ==
  /\ [][irState'.windowHeight # irState.windowHeight
          => (HandleResize /\ irState'.windowHeight = innerHeight)]_vars
  /\ \/ []<><<ResizeEvent>>_vars
     \/ <>[](irState.windowHeight = innerHeight \/ irPhase # "mounted")

\* C12 witness: handleResize has just run and windowHeight is innerHeight.
C12_Witness ==
  /\ irPhase = "mounted"
  /\ msSinceResize = 0
  /\ ~resizeTimer.armed
  /\ irState.windowHeight = innerHeight

\* C13: on mount the width is measured and stored before the observer is
\* attached: state.width is first stored by componentDidMount, at a moment
\* when no observer observes yet, and the observer's callback only runs on
\* a stored width.
C13_MeasureBeforeObserve ==
  [][/\ (awState.width.type = "undefined" /\ awState'.width.type # "undefined")
          => /\ awPhase = "rendered"
             /\ awPhase' = "mounted"
             /\ ~observing
             /\ awState'.width = Num(elemWidth)
     /\ observing' => awState'.width.type = "number"
     /\ AW_observerCallback => awState.width.type = "number"]_vars

\* C13 witness: componentDidMount has stored the measurement and attached the
\* observer, whose first notification is still to come.
C13_Witness ==
  /\ awPhase = "mounted"
  /\ observing
  /\ awPending
  /\ awState.width = Num(elemWidth)

\* C14: in every handleIntersect call whose id is not the current step, the
\* index of id in INTRO_STEPS is less than the index of the current step.
C14_BackwardsIsEarlier ==
  [][\A i \in 1..NumSteps :
       (HandleIntersect(INTRO_STEPS[i]) /\ irState.currentStep # INTRO_STEPS[i])
         => (i - 1) < IndexOf(INTRO_STEPS, irState.currentStep)]_vars

\* the fields of this.state other than f keep their values in a step
OnlyChanges(f) ==
  \A g \in (DOMAIN irState) \ {f} : irState'[g] = irState[g]

\* C15: handleIntersect and handleScroll change at most currentStep,
\* handleResize only windowHeight, handleUpdateAmplitude only amplitude,
\* handleUpdateFrequency only frequency, handleToggleAudibility only
\* userEnabledSound, and no handler changes shape.
C15_HandlerFrames ==
  [][irState' # irState =>
       /\ OnlyChanges("currentStep") \/ ~(Intersect \/ HandleScroll)
       /\ OnlyChanges("windowHeight") \/ ~HandleResize
       /\ OnlyChanges("amplitude") \/ ~HandleUpdateAmplitude
       /\ OnlyChanges("frequency") \/ ~HandleUpdateFrequency
       /\ OnlyChanges("userEnabledSound") \/ ~HandleToggleAudibility
       /\ irState'.shape = irState.shape]_vars

\* C15 witness: every handler has changed its field.
C15_Witness ==
  /\ irState.amplitude = 2
  /\ irState.frequency = 2
  /\ irState.userEnabledSound
  /\ irState.currentStep = INTRO_STEPS[2]
  /\ irState.windowHeight # innerHeight
  /\ scrollRuns > 0
  /\ msSinceResize < 500

\* C16: isAudible handed to Oscillator is true only if userEnabledSound is
\* true and the current step makes the sound toggleable; userEnabledSound
\* starts false and only handleToggleAudibility changes it.
C16_AudibleOnlyWithConsent ==
  [][/\ \A st \in {irState, irState'} :
          IR_render(st).isAudible =>
            /\ st.userEnabledSound
            /\ \E i \in 1..NumSteps :
                 st.currentStep = INTRO_STEPS[i] /\ makeSoundToggleable(i)
     /\ (irState'.userEnabledSound # irState.userEnabledSound)
          => HandleToggleAudibility]_vars

\* C16 witness: the oscillator is audible.
C16_Witness ==
  /\ irPhase = "mounted"
  /\ IR_render(irState).isAudible

\* C17: running the body of handleScroll again with the same layout yields
\* the same currentStep as running it once; when the first section with
\* bottom >= 0 is already the current step, a run leaves currentStep as is.
C17_ScrollIdempotent ==
  [][HandleScroll =>
       /\ handleScrollBody(irState', sectionBottoms').currentStep
            = irState'.currentStep
       /\ (/\ FirstBelowTop(sectionBottoms) # 0
           /\ irState.currentStep = INTRO_STEPS[FirstBelowTop(sectionBottoms)])
            => irState'.currentStep = irState.currentStep]_vars

\* C17 witness: handleScroll has run twice and the current step is the first
\* section with bottom >= 0.
C17_Witness ==
  /\ scrollRuns >= 2
  /\ msSinceScroll = 0
  /\ FirstBelowTop(sectionBottoms) # 0
  /\ irState.currentStep = INTRO_STEPS[FirstBelowTop(sectionBottoms)]
====
